---- MODULE Spec2Model ----
(***************************************************************************)
(* Sliding-sync session bootstrap (SlidingSyncBuilder / SlidingSyncConfig)  *)
(* of crates/matrix-sdk/src/sliding_sync/config.rs, as a state machine.     *)
(*                                                                         *)
(* A behaviour is one builder chain followed by one run of build(): the    *)
(* builder calls mutate `builder`, Build destructures the configuration,    *)
(* and every `.await` on the key-value store is one step of the run.       *)
(***************************************************************************)
EXTENDS Integers, Sequences, FiniteSets, TLC

VARIABLES
    builder,            \* SlidingSyncBuilder: the Option-wrapped fields
    calls,              \* number of calls made on the builder chain
    add_log,            \* history: names passed to add_view, in call order
    called,             \* history: the last call on the builder chain, and the
                        \* builder it was made on
    kv,                 \* the store's custom key-value table: key -> Option<bytes>
    pc,                 \* position of the build() future
    storage_key,        \* build(): local `storage_key`
    views,              \* build(): local `views`
    extensions,         \* build(): local `extensions`
    delta_token_inner,  \* build(): local `delta_token_inner`
    rooms_found,        \* build(): local `rooms_found`
    iter,               \* build(): names `views.iter_mut()` has still to yield
    reads,              \* history: keys handed to get_custom_value, in order
    sliding_sync,       \* Option<SlidingSync>: the Ok value of build()
    error,              \* Option<Error>: the Err value of build()
    \* Store (crates/matrix-sdk-base/src/store/mod.rs)
    backend,            \* Store::inner: the room infos and sync token it persists
    session,            \* Store::session
    sync_token,         \* Store::sync_token
    rooms,              \* Store::rooms: room id -> Room
    stripped_rooms,     \* Store::stripped_rooms: room id -> Room
    next_inst,          \* number of Room objects constructed so far
    rs_pc,              \* position of the restore_session() future
    rs_session,         \* restore_session(): its argument `session`
    rs_hist,            \* history: the Store when restore_session was called, and
                        \* the room ids the call has inserted since
    ret,                \* the last completed Store call and what it returned
    goc_watch,          \* history: the (id, type) whose get_or_create_room calls are kept
    goc_ret,            \* history: the Room the last such call returned
    goc_clean,          \* history: no restore_session insert happened since that call
    \* StateChanges
    changes,            \* one StateChanges value
    adds,               \* number of add_* calls made on it
    hist,               \* history: per add_* operation and key, the values passed, in call order
    \* tasks calling into one Store at the same time
    tasks               \* per task, the position of its get_or_create_* future

bootVars == <<builder, calls, add_log, called, kv, pc, storage_key, views, extensions,
              delta_token_inner, rooms_found, iter, reads, sliding_sync, error>>
storeVars == <<backend, session, sync_token, rooms, stripped_rooms, next_inst,
               rs_pc, rs_session, rs_hist, ret, goc_watch, goc_ret, goc_clean>>
changesVars == <<changes, adds, hist>>
taskVars == <<tasks>>

vars == <<bootVars, storeVars, changesVars, taskVars>>

-----------------------------------------------------------------------------
(* Bounds *)

\* calls on the builder chain before build()
MaxCalls == 3

\* tasks that call get_or_create_room / get_or_create_stripped_room at the same time
MaxTasks == 2
Tasks == 1..MaxTasks

-----------------------------------------------------------------------------
(* Option<T> *)

None == <<>>
Some(x) == <<x>>
IsSome(o) == Len(o) = 1
IsNone(o) == Len(o) = 0
Unwrap(o) == o[1]
\* Option::unwrap_or_default for a builder field
OrDefault(o, d) == IF IsSome(o) THEN Unwrap(o) ELSE d

EmptyMap == [k \in {} |-> None]
\* BTreeMap::insert
MapInsert(m, k, v) == [x \in DOMAIN m \cup {k} |-> IF x = k THEN v ELSE m[x]]

-----------------------------------------------------------------------------
(* Strings are sequences of characters; a key is the string's bytes. *)

\* the UTF-8 byte of a character, which String's Ord compares
Byte(c) ==
    CASE c = ":" -> 58
      [] c = "a" -> 97
      [] c = "b" -> 98
      [] c = "m" -> 109

RECURSIVE StrLess(_, _)
\* String's Ord: lexicographic on bytes, a proper prefix first
StrLess(s, t) ==
    IF s = <<>> THEN t # <<>>
    ELSE IF t = <<>> THEN FALSE
    ELSE IF Byte(s[1]) # Byte(t[1]) THEN Byte(s[1]) < Byte(t[1])
    ELSE StrLess(Tail(s), Tail(t))

StorageKeys == {<<"m">>}
ViewNames == {<<"a">>, <<"b">>}
RoomIds == {"X", "Y"}

\* format!("{storage_key}::{name}").as_bytes()
ViewKey(sk, name) == sk \o <<":", ":">> \o name
\* storage_key.as_bytes()
SessionKey(sk) == sk

Keys == {SessionKey(sk) : sk \in StorageKeys}
          \cup {ViewKey(sk, n) : sk \in StorageKeys, n \in ViewNames}

-----------------------------------------------------------------------------
(* Extension configuration (v4::ExtensionsConfig and its members) *)

\* ToDeviceConfig::default()
ToDeviceConfigDefault == [enabled |-> None, limit |-> None, since |-> None]
\* E2EEConfig, AccountDataConfig, ReceiptConfig, TypingConfig: default()
ToggleConfigDefault == [enabled |-> None]
\* ExtensionsConfig::default()
ExtensionsConfigDefault ==
    [to_device |-> None, e2ee |-> None, account_data |-> None,
     receipt |-> None, typing |-> None]

\* assign!(ToDeviceConfig::default(), { enabled: Some(true) })
ToDeviceEnabled == [ToDeviceConfigDefault EXCEPT !.enabled = Some(TRUE)]
\* assign!(XConfig::default(), { enabled: Some(true) })
ToggleEnabled == [ToggleConfigDefault EXCEPT !.enabled = Some(TRUE)]

\* configurations a caller hands to the individual setters
ToDeviceInputs == {[enabled |-> Some(FALSE), limit |-> Some(5), since |-> Some("s0")]}
ToggleInputs == {[enabled |-> Some(FALSE)]}

-----------------------------------------------------------------------------
(* Views and frozen snapshots *)

\* a freshly built SlidingSyncView: its name and its (empty) live cursor
SlidingSyncView(name) == [name |-> name, rooms_count |-> None, rooms_list |-> <<>>]

\* SlidingSyncView::set_from_cold
set_from_cold(view, rooms_count, rooms_list) ==
    [view EXCEPT !.rooms_count = rooms_count, !.rooms_list = rooms_list]

\* SlidingSyncRoom::from_frozen
from_frozen(frozen_room) == [inner |-> frozen_room, is_cold |-> TRUE]

\* FrozenSlidingSyncView records found in the store
FrozenViews ==
    { [rooms_count |-> Some(2), rooms_list |-> <<"X", "Y">>, rooms |-> ("X" :> "p1")],
      [rooms_count |-> Some(1), rooms_list |-> <<"X">>,
       rooms |-> ("X" :> "p2" @@ "Y" :> "p3")] }

\* FrozenSlidingSync records found in the store
FrozenSyncs ==
    { [to_device_since |-> Some("tok1"), delta_token |-> Some("dt1")],
      [to_device_since |-> None,         delta_token |-> Some("dt1")],
      [to_device_since |-> Some("tok1"), delta_token |-> None] }

\* serde_json::to_vec of a FrozenSlidingSyncView / FrozenSlidingSync
ViewBytes(f) == <<"FrozenSlidingSyncView", f>>
SyncBytes(f) == <<"FrozenSlidingSync", f>>
\* bytes that are no JSON document of either record
Garbage == <<"garbage">>

\* Result<T, E>
Ok(x) == <<"Ok", x>>
Err(e) == <<"Err", e>>
IsOk(r) == r[1] = "Ok"
IsErr(r) == r[1] = "Err"

\* serde_json::from_slice::<FrozenSlidingSyncView>(&v)
from_slice_FrozenSlidingSyncView(v) ==
    IF v[1] = "FrozenSlidingSyncView" THEN Ok(v[2]) ELSE Err("Codec")

\* serde_json::from_slice::<FrozenSlidingSync>(&v)
from_slice_FrozenSlidingSync(v) ==
    IF v[1] = "FrozenSlidingSync" THEN Ok(v[2]) ELSE Err("Codec")

\* what a view key / the session key may hold when the run starts
ViewSlot == {None, Some(Garbage)} \cup {Some(ViewBytes(f)) : f \in FrozenViews}
SyncSlot == {None, Some(Garbage)} \cup {Some(SyncBytes(f)) : f \in FrozenSyncs}

\* StateStore::get_custom_value on the table: the stored bytes, if any
get_custom_value(table, key) == IF key \in DOMAIN table THEN table[key] ELSE None

-----------------------------------------------------------------------------
(* SlidingSyncBuilder: every method takes the builder and returns it. *)

\* #[derive(Builder)] default of the builder: every field unset
BuilderDefault == [storage_key |-> None, views |-> None, extensions |-> None]

\* no call is made on the builder chain yet, or build() has taken the builder
NoBuilderCall == [op |-> "", self |-> BuilderDefault]

\* self.extensions.get_or_insert_with(Default::default)
\*                .get_or_insert_with(Default::default)
ExtCfg(self) ==
    IF IsSome(self.extensions) /\ IsSome(Unwrap(self.extensions))
    THEN Unwrap(Unwrap(self.extensions))
    ELSE ExtensionsConfigDefault

SetExt(self, cfg) == [self EXCEPT !.extensions = Some(Some(cfg))]

cold_cache(self, name) == [self EXCEPT !.storage_key = Some(Some(name))]

no_cold_cache(self) == [self EXCEPT !.storage_key = None]

no_views(self) == [self EXCEPT !.views = None]

add_view(self, v) ==
    [self EXCEPT !.views = Some(MapInsert(OrDefault(self.views, EmptyMap), v.name, v))]

\* mutant: the bundle sets its three extensions whatever is configured
with_common_extensions_Overwrite(self) ==
    SetExt(self, [ExtCfg(self) EXCEPT !.to_device = Some(ToDeviceEnabled),
                                      !.e2ee = Some(ToggleEnabled),
                                      !.account_data = Some(ToggleEnabled)])

with_common_extensions(self) ==
    LET cfg == ExtCfg(self)
        c1 == IF IsNone(cfg.to_device)
              THEN [cfg EXCEPT !.to_device = Some(ToDeviceEnabled)] ELSE cfg
        c2 == IF IsNone(c1.e2ee)
              THEN [c1 EXCEPT !.e2ee = Some(ToggleEnabled)] ELSE c1
        c3 == IF IsNone(c2.account_data)
              THEN [c2 EXCEPT !.account_data = Some(ToggleEnabled)] ELSE c2
    IN  SetExt(self, c3)

with_all_extensions(self) ==
    LET cfg == ExtCfg(self)
        c1 == IF IsNone(cfg.to_device)
              THEN [cfg EXCEPT !.to_device = Some(ToDeviceEnabled)] ELSE cfg
        c2 == IF IsNone(c1.e2ee)
              THEN [c1 EXCEPT !.e2ee = Some(ToggleEnabled)] ELSE c1
        c3 == IF IsNone(c2.account_data)
              THEN [c2 EXCEPT !.account_data = Some(ToggleEnabled)] ELSE c2
        c4 == IF IsNone(c3.receipt)
              THEN [c3 EXCEPT !.receipt = Some(ToggleEnabled)] ELSE c3
        c5 == IF IsNone(c4.typing)
              THEN [c4 EXCEPT !.typing = Some(ToggleEnabled)] ELSE c4
    IN  SetExt(self, c5)

with_e2ee_extension(self, e2ee) == SetExt(self, [ExtCfg(self) EXCEPT !.e2ee = Some(e2ee)])
without_e2ee_extension(self) == SetExt(self, [ExtCfg(self) EXCEPT !.e2ee = None])

\* mutant: the setter keeps a to-device configuration that is present
with_to_device_extension_FillOnly(self, to_device) ==
    IF IsSome(ExtCfg(self).to_device)
    THEN SetExt(self, ExtCfg(self))
    ELSE SetExt(self, [ExtCfg(self) EXCEPT !.to_device = Some(to_device)])

with_to_device_extension(self, to_device) ==
    SetExt(self, [ExtCfg(self) EXCEPT !.to_device = Some(to_device)])
without_to_device_extension(self) ==
    SetExt(self, [ExtCfg(self) EXCEPT !.to_device = None])

with_account_data_extension(self, account_data) ==
    SetExt(self, [ExtCfg(self) EXCEPT !.account_data = Some(account_data)])
without_account_data_extension(self) ==
    SetExt(self, [ExtCfg(self) EXCEPT !.account_data = None])

with_typing_extension(self, typing) ==
    SetExt(self, [ExtCfg(self) EXCEPT !.typing = Some(typing)])
without_typing_extension(self) == SetExt(self, [ExtCfg(self) EXCEPT !.typing = None])

with_receipt_extension(self, receipt) ==
    SetExt(self, [ExtCfg(self) EXCEPT !.receipt = Some(receipt)])
without_receipt_extension(self) == SetExt(self, [ExtCfg(self) EXCEPT !.receipt = None])

\* mutant: an unset storage key defaults to a cache name
build_no_cache_DefaultKey(self) ==
    [storage_key |-> OrDefault(self.storage_key, Some(<<"m">>)),
     views       |-> OrDefault(self.views, EmptyMap),
     extensions  |-> OrDefault(self.extensions, None)]

\* build_no_cache(): each unset field takes its #[builder(default)]
build_no_cache(self) ==
    [storage_key |-> OrDefault(self.storage_key, None),
     views       |-> OrDefault(self.views, EmptyMap),
     extensions  |-> OrDefault(self.extensions, None)]

-----------------------------------------------------------------------------
(* Store and StateChanges at rest: the state of a Store::new on an empty     *)
(* backend and of StateChanges::default(), for behaviours that use neither. *)

\* a call record: the operation, its arguments and what it returned
NoCall ==
    [op |-> "none", room_id |-> "", room_type |-> "", outcome |-> "",
     value |-> <<>>, prior |-> None, clean |-> FALSE, touched |-> FALSE]

\* no restore_session was called yet
NoRestore ==
    [session |-> None, sync_token |-> None, rooms |-> {}, stripped_rooms |-> {},
     confirmed |-> {}, stripped |-> {}]

\* StateChanges::default()
StateChangesDefault ==
    [sync_token |-> None, account_data |-> EmptyMap, presence |-> EmptyMap,
     state |-> EmptyMap, room_account_data |-> EmptyMap, room_infos |-> EmptyMap,
     receipts |-> EmptyMap, stripped_members |-> EmptyMap,
     stripped_room_infos |-> EmptyMap, notifications |-> EmptyMap,
     timeline |-> EmptyMap]

\* a task that is not in a call
NoTask ==
    [pc |-> "idle", op |-> "", room_id |-> "", room_type |-> "", value |-> None,
     created |-> FALSE, raced |-> FALSE]

\* Store::new: no session, no token, both partitions empty, no call in flight
StoreNew ==
    /\ tasks = [t \in Tasks |-> NoTask]
    /\ session = None
    /\ sync_token = None
    /\ rooms = EmptyMap
    /\ stripped_rooms = EmptyMap
    /\ next_inst = 0
    /\ rs_pc = "idle"
    /\ rs_session = None
    /\ rs_hist = NoRestore
    /\ ret = NoCall
    /\ goc_ret = None
    /\ goc_clean = FALSE

StoreIdle ==
    /\ backend = [room_infos |-> EmptyMap, stripped_room_infos |-> EmptyMap,
                  sync_token |-> None]
    /\ goc_watch = None
    /\ StoreNew

ChangesIdle ==
    /\ changes = StateChangesDefault
    /\ adds = 0
    /\ hist = EmptyMap

-----------------------------------------------------------------------------
(* SlidingSyncConfig::build *)

RECURSIVE BTreeIter(_)
\* the keys of a BTreeMap<String, _> in the order iter()/iter_mut() yields them
BTreeIter(S) ==
    IF S = {} THEN <<>>
    ELSE LET least == CHOOSE x \in S : \A y \in S \ {x} : StrLess(x, y)
         IN  <<least>> \o BTreeIter(S \ {least})

RECURSIVE Reverse(_)
Reverse(q) == IF q = <<>> THEN <<>> ELSE Reverse(Tail(q)) \o <<Head(q)>>

\* mutant: the views are visited in descending order of name
ViewOrder_Descending(vs) == Reverse(BTreeIter(DOMAIN vs))

\* views.iter_mut(): the order in which build() visits the configured views
ViewOrder(vs) == BTreeIter(DOMAIN vs)

\* mutant: rooms_found.insert(key, ..), the later view overwrites
RestoreRooms_Overwrite(found, frozen_rooms) ==
    [k \in DOMAIN found \cup DOMAIN frozen_rooms |->
        IF k \in DOMAIN frozen_rooms THEN from_frozen(frozen_rooms[k]) ELSE found[k]]

\* for (key, frozen_room) in rooms: rooms_found.entry(key).or_insert_with(from_frozen)
RestoreRooms(found, frozen_rooms) ==
    [k \in DOMAIN found \cup DOMAIN frozen_rooms |->
        IF k \in DOMAIN found THEN found[k] ELSE from_frozen(frozen_rooms[k])]

\* mutant: only the room count is restored, the window stays empty
RestoreCursor_CountOnly(vs, name, frozen_view) ==
    [vs EXCEPT ![name] = set_from_cold(@, frozen_view.rooms_count, @.rooms_list)]

\* view.set_from_cold(rooms_count, rooms_list) on the view named `name`
RestoreCursor(vs, name, frozen_view) ==
    [vs EXCEPT ![name] = set_from_cold(@, frozen_view.rooms_count, frozen_view.rooms_list)]

\* mutant: the token creates the to-device extension when it is absent
InjectSince_Creating(ext, to_device_since) ==
    IF IsSome(to_device_since)
    THEN LET cfg == OrDefault(ext, ExtensionsConfigDefault)
             td == OrDefault(cfg.to_device, ToDeviceConfigDefault)
         IN  Some([cfg EXCEPT !.to_device = Some([td EXCEPT !.since = to_device_since])])
    ELSE ext

\* mutant: the token only fills a `since` that is not configured
InjectSince_FillOnly(ext, to_device_since) ==
    IF IsSome(to_device_since)
    THEN LET cfg == OrDefault(ext, ExtensionsConfigDefault)
         IN  IF IsSome(cfg.to_device) /\ IsNone(Unwrap(cfg.to_device).since)
             THEN Some([cfg EXCEPT !.to_device =
                           Some([Unwrap(cfg.to_device) EXCEPT !.since = to_device_since])])
             ELSE Some(cfg)
    ELSE ext

\* if let Some(since) = to_device_since { if let Some(to_device_ext) =
\*   extensions.get_or_insert_with(Default::default).to_device.as_mut()
\*   { to_device_ext.since = Some(since) } }
InjectSince(ext, to_device_since) ==
    IF IsSome(to_device_since)
    THEN LET cfg == OrDefault(ext, ExtensionsConfigDefault)
         IN  IF IsSome(cfg.to_device)
             THEN Some([cfg EXCEPT !.to_device =
                           Some([Unwrap(cfg.to_device) EXCEPT !.since = to_device_since])])
             ELSE Some(cfg)
    ELSE ext

\* mutant: bytes that do not parse count as a miss
ReadFrozenView_Lenient(got) ==
    IF IsNone(got) THEN Ok(None)
    ELSE LET parsed == from_slice_FrozenSlidingSyncView(Unwrap(got))
         IN  IF IsErr(parsed) THEN Ok(None) ELSE Ok(Some(parsed[2]))

\* mutant: a miss is reported as an error
ReadFrozenView_Strict(got) ==
    IF IsNone(got) THEN Err("Codec")
    ELSE LET parsed == from_slice_FrozenSlidingSyncView(Unwrap(got))
         IN  IF IsErr(parsed) THEN parsed ELSE Ok(Some(parsed[2]))

\* .map(|v| serde_json::from_slice::<FrozenSlidingSyncView>(&v)).transpose():
\* Ok(None) for a miss, Ok(Some(record)) for a hit, Err for bytes that do not parse
ReadFrozenView(got) ==
    IF IsNone(got) THEN Ok(None)
    ELSE LET parsed == from_slice_FrozenSlidingSyncView(Unwrap(got))
         IN  IF IsErr(parsed) THEN parsed ELSE Ok(Some(parsed[2]))

\* .map(|v| serde_json::from_slice::<FrozenSlidingSync>(&v)).transpose()
ReadFrozenSync(got) ==
    IF IsNone(got) THEN Ok(None)
    ELSE LET parsed == from_slice_FrozenSlidingSync(Unwrap(got))
         IN  IF IsErr(parsed) THEN parsed ELSE Ok(Some(parsed[2]))

\* mutant: the delta token is taken only inside `if let Some(since)`
RestoreDeltaToken_WithSince(frozen) ==
    IF IsSome(frozen.to_device_since) THEN frozen.delta_token ELSE None

\* delta_token_inner = delta_token
RestoreDeltaToken(frozen) == frozen.delta_token

\* mutant: a failed step deletes the record it has just read
Abort_Purging(e) ==
    /\ pc' = "Aborted"
    /\ error' = Some(e)
    /\ storage_key' = None
    /\ views' = EmptyMap
    /\ extensions' = None
    /\ delta_token_inner' = None
    /\ rooms_found' = EmptyMap
    /\ iter' = <<>>
    /\ kv' = [kv EXCEPT ![reads'[Len(reads')]] = None]
    /\ UNCHANGED sliding_sync

\* mutant: a read that failed in the backend is issued again
Abort_Retrying(e) ==
    IF e = "BackendFailure"
    THEN UNCHANGED <<pc, error, storage_key, views, extensions, delta_token_inner,
                     rooms_found, iter, sliding_sync, kv>>
    ELSE /\ pc' = "Aborted"
         /\ error' = Some(e)
         /\ storage_key' = None
         /\ views' = EmptyMap
         /\ extensions' = None
         /\ delta_token_inner' = None
         /\ rooms_found' = EmptyMap
         /\ iter' = <<>>
         /\ UNCHANGED <<sliding_sync, kv>>

\* the `?` of a failed step: the future ends with Err and drops its locals
Abort(e) ==
    /\ pc' = "Aborted"
    /\ error' = Some(e)
    /\ storage_key' = None
    /\ views' = EmptyMap
    /\ extensions' = None
    /\ delta_token_inner' = None
    /\ rooms_found' = EmptyMap
    /\ iter' = <<>>
    /\ UNCHANGED <<sliding_sync, kv>>

\* after one view: the next view, or the session-level record
AfterView == IF Tail(iter) = <<>> THEN "session_restore" ELSE "view_restore"

Init ==
    /\ builder = BuilderDefault
    /\ calls = 0
    /\ add_log = <<>>
    /\ called = NoBuilderCall
    /\ \E s \in SyncSlot, f \in [ViewNames -> ViewSlot] :
          kv = [k \in Keys |->
                  IF k \in {SessionKey(sk) : sk \in StorageKeys} THEN s
                  ELSE f[CHOOSE n \in ViewNames :
                            \E sk \in StorageKeys : k = ViewKey(sk, n)]]
    /\ pc = "builder"
    /\ storage_key = None
    /\ views = EmptyMap
    /\ extensions = None
    /\ delta_token_inner = None
    /\ rooms_found = EmptyMap
    /\ iter = <<>>
    /\ reads = <<>>
    /\ sliding_sync = None
    /\ error = None
    /\ StoreIdle
    /\ ChangesIdle

buildLocals == <<storage_key, views, extensions, delta_token_inner, rooms_found, iter>>

\* one call `op` on the builder chain, before build()
BuilderCall(op, next) ==
    /\ pc = "builder"
    /\ calls < MaxCalls
    /\ builder' = next
    /\ calls' = calls + 1
    /\ called' = [op |-> op, self |-> builder]
    /\ UNCHANGED <<kv, pc, buildLocals, reads, sliding_sync, error>>
    /\ UNCHANGED <<storeVars, changesVars, taskVars>>

ColdCache == \E name \in StorageKeys :
    BuilderCall("cold_cache", cold_cache(builder, name)) /\ UNCHANGED add_log
NoColdCache == BuilderCall("no_cold_cache", no_cold_cache(builder)) /\ UNCHANGED add_log
NoViews == BuilderCall("no_views", no_views(builder)) /\ add_log' = <<>>
AddView == \E name \in ViewNames :
    /\ BuilderCall("add_view", add_view(builder, SlidingSyncView(name)))
    /\ add_log' = Append(add_log, name)
WithCommonExtensions ==
    BuilderCall("with_common_extensions", with_common_extensions(builder))
        /\ UNCHANGED add_log
WithAllExtensions ==
    BuilderCall("with_all_extensions", with_all_extensions(builder))
        /\ UNCHANGED add_log
WithE2eeExtension == \E c \in ToggleInputs :
    BuilderCall("with_e2ee_extension", with_e2ee_extension(builder, c))
        /\ UNCHANGED add_log
WithoutE2eeExtension ==
    BuilderCall("without_e2ee_extension", without_e2ee_extension(builder))
        /\ UNCHANGED add_log
WithToDeviceExtension == \E c \in ToDeviceInputs :
    BuilderCall("with_to_device_extension", with_to_device_extension(builder, c))
        /\ UNCHANGED add_log
WithoutToDeviceExtension ==
    BuilderCall("without_to_device_extension", without_to_device_extension(builder))
        /\ UNCHANGED add_log
WithAccountDataExtension == \E c \in ToggleInputs :
    BuilderCall("with_account_data_extension", with_account_data_extension(builder, c))
        /\ UNCHANGED add_log
WithoutAccountDataExtension ==
    BuilderCall("without_account_data_extension", without_account_data_extension(builder))
        /\ UNCHANGED add_log
WithTypingExtension == \E c \in ToggleInputs :
    BuilderCall("with_typing_extension", with_typing_extension(builder, c))
        /\ UNCHANGED add_log
WithoutTypingExtension ==
    BuilderCall("without_typing_extension", without_typing_extension(builder))
        /\ UNCHANGED add_log
WithReceiptExtension == \E c \in ToggleInputs :
    BuilderCall("with_receipt_extension", with_receipt_extension(builder, c))
        /\ UNCHANGED add_log
WithoutReceiptExtension ==
    BuilderCall("without_receipt_extension", without_receipt_extension(builder))
        /\ UNCHANGED add_log

\* SlidingSyncBuilder::build up to the first `.await`: build_no_cache(), the
\* destructuring of the configuration and the test of storage_key
Build ==
    /\ pc = "builder"
    /\ LET cfg == build_no_cache(builder) IN
        /\ storage_key' = cfg.storage_key
        /\ views' = cfg.views
        /\ extensions' = cfg.extensions
        /\ delta_token_inner' = None
        /\ rooms_found' = EmptyMap
        /\ IF IsSome(cfg.storage_key)
           THEN /\ iter' = ViewOrder(cfg.views)
                /\ pc' = IF ViewOrder(cfg.views) = <<>>
                         THEN "session_restore" ELSE "view_restore"
           ELSE /\ iter' = <<>>
                /\ pc' = "assemble"
    /\ called' = NoBuilderCall
    /\ UNCHANGED <<builder, calls, add_log, kv, reads, sliding_sync, error>>
    /\ UNCHANGED <<storeVars, changesVars, taskVars>>

\* one turn of `for (name, view) in views.iter_mut()`: the read of the view's
\* record, `?` on the store's and on serde's result, and the restore
ViewRestore ==
    /\ pc = "view_restore"
    /\ LET name == Head(iter)
           key == ViewKey(Unwrap(storage_key), name)
       IN
        /\ reads' = Append(reads, key)
        /\ \E backend_ok \in BOOLEAN :
            IF ~backend_ok THEN Abort("BackendFailure")
            ELSE LET r == ReadFrozenView(get_custom_value(kv, key)) IN
                IF IsErr(r) THEN Abort(r[2])
                ELSE /\ IF IsSome(r[2])
                        THEN /\ views' = RestoreCursor(views, name, Unwrap(r[2]))
                             /\ rooms_found' = RestoreRooms(rooms_found, Unwrap(r[2]).rooms)
                        ELSE UNCHANGED <<views, rooms_found>>
                     /\ iter' = Tail(iter)
                     /\ pc' = AfterView
                     /\ UNCHANGED <<kv, storage_key, extensions, delta_token_inner,
                                    sliding_sync, error>>
    /\ UNCHANGED <<builder, calls, add_log, called>>
    /\ UNCHANGED <<storeVars, changesVars, taskVars>>

\* the read of the session-level record, `?` twice, and the restore of the
\* to-device since token and of the delta token
SessionRestore ==
    /\ pc = "session_restore"
    /\ LET key == SessionKey(Unwrap(storage_key)) IN
        /\ reads' = Append(reads, key)
        /\ \E backend_ok \in BOOLEAN :
            IF ~backend_ok THEN Abort("BackendFailure")
            ELSE LET r == ReadFrozenSync(get_custom_value(kv, key)) IN
                IF IsErr(r) THEN Abort(r[2])
                ELSE /\ IF IsSome(r[2])
                        THEN /\ extensions' =
                                    InjectSince(extensions, Unwrap(r[2]).to_device_since)
                             /\ delta_token_inner' = RestoreDeltaToken(Unwrap(r[2]))
                        ELSE UNCHANGED <<extensions, delta_token_inner>>
                     /\ pc' = "assemble"
                     /\ UNCHANGED <<kv, storage_key, views, rooms_found, iter,
                                    sliding_sync, error>>
    /\ UNCHANGED <<builder, calls, add_log, called>>
    /\ UNCHANGED <<storeVars, changesVars, taskVars>>

\* Ok(SlidingSync { .. }): the locals move into the session object
Assemble ==
    /\ pc = "assemble"
    /\ sliding_sync' = Some([storage_key     |-> storage_key,
                             views           |-> views,
                             rooms           |-> rooms_found,
                             extensions      |-> extensions,
                             sent_extensions |-> None,
                             failure_count   |-> 0,
                             pos             |-> None,
                             delta_token     |-> delta_token_inner])
    /\ pc' = "Assembled"
    /\ storage_key' = None
    /\ views' = EmptyMap
    /\ extensions' = None
    /\ delta_token_inner' = None
    /\ rooms_found' = EmptyMap
    /\ iter' = <<>>
    /\ UNCHANGED <<builder, calls, add_log, called, kv, reads, error>>
    /\ UNCHANGED <<storeVars, changesVars, taskVars>>

Next ==
    \/ ColdCache
    \/ NoColdCache
    \/ NoViews
    \/ AddView
    \/ WithCommonExtensions
    \/ WithAllExtensions
    \/ WithE2eeExtension
    \/ WithoutE2eeExtension
    \/ WithToDeviceExtension
    \/ WithoutToDeviceExtension
    \/ WithAccountDataExtension
    \/ WithoutAccountDataExtension
    \/ WithTypingExtension
    \/ WithoutTypingExtension
    \/ WithReceiptExtension
    \/ WithoutReceiptExtension
    \/ Build
    \/ ViewRestore
    \/ SessionRestore
    \/ Assemble

Spec == Init /\ [][Next]_vars

-----------------------------------------------------------------------------
(* Vocabulary of the properties *)

\* the configuration the builder chain describes
ConfiguredStorageKey == IF IsSome(builder.storage_key) THEN Unwrap(builder.storage_key) ELSE None
ConfiguredViews == IF IsSome(builder.views) THEN Unwrap(builder.views) ELSE EmptyMap
ConfiguredExtensions == IF IsSome(builder.extensions) THEN Unwrap(builder.extensions) ELSE None
ConfiguredToDevice ==
    IF IsSome(ConfiguredExtensions) THEN Unwrap(ConfiguredExtensions).to_device ELSE None

Assembled == pc = "Assembled"
Aborted == pc = "Aborted"
\* the session build() returned
Session == Unwrap(sliding_sync)
\* the run went through the store (a storage key was configured)
Warm == IsSome(ConfiguredStorageKey)
TheKey == Unwrap(ConfiguredStorageKey)

\* what the store holds for view `n` and for the session
ViewRecord(n) == kv[ViewKey(TheKey, n)]
SyncRecord == kv[SessionKey(TheKey)]
HasFrozenView(n) == \E f \in FrozenViews : ViewRecord(n) = Some(ViewBytes(f))
FrozenViewOf(n) == Unwrap(ViewRecord(n))[2]
HasFrozenSync == \E g \in FrozenSyncs : SyncRecord = Some(SyncBytes(g))
FrozenSyncOf == Unwrap(SyncRecord)[2]
\* view `n` has a well-formed snapshot with a payload for room `x`
Holds(n, x) == HasFrozenView(n) /\ x \in DOMAIN FrozenViewOf(n).rooms
PayloadOf(n, x) == FrozenViewOf(n).rooms[x]

\* position of the read of view n's key in the run
ReadAt(n) == CHOOSE i \in 1..Len(reads) : reads[i] = ViewKey(TheKey, n)

-----------------------------------------------------------------------------
(* C1 *)

\* C1: first-writer-wins. In an assembled session, for every room id the room
\* map holds exactly the rooms found in the restored view snapshots, and the
\* entry of a room is built from the payload of the view whose record was read
\* first among the views that hold a payload for it; later payloads are dropped.
C1_FirstWriterWins ==
    (Assembled /\ Warm) =>
        \A x \in RoomIds :
            LET holders == {n \in DOMAIN Session.views : Holds(n, x)} IN
            IF holders = {} THEN x \notin DOMAIN Session.rooms
            ELSE LET first == CHOOSE n \in holders :
                                \A m \in holders : ReadAt(n) <= ReadAt(m)
                 IN  /\ x \in DOMAIN Session.rooms
                     /\ Session.rooms[x] = from_frozen(PayloadOf(first, x))

\* two restored views hold different payloads for the same room
C1_Witness ==
    /\ Assembled /\ Warm
    /\ \E x \in RoomIds, n, m \in DOMAIN Session.views :
          /\ n # m /\ Holds(n, x) /\ Holds(m, x)
          /\ PayloadOf(n, x) # PayloadOf(m, x)
          /\ ReadAt(n) < ReadAt(m)
          /\ Session.rooms[x] = from_frozen(PayloadOf(n, x))

-----------------------------------------------------------------------------
(* C2 *)

\* view p was added (once) before view q (once) on the builder chain
AddedBefore(p, q) ==
    /\ Cardinality({i \in 1..Len(add_log) : add_log[i] = p}) = 1
    /\ Cardinality({i \in 1..Len(add_log) : add_log[i] = q}) = 1
    /\ \E i, j \in 1..Len(add_log) : i < j /\ add_log[i] = p /\ add_log[j] = q

-----------------------------------------------------------------------------
(* C3 *)

\* C3: snapshot round trip. In an assembled session every view whose key
\* holds a well-formed view snapshot has exactly the snapshot's rooms_count
\* and rooms_list as its cursor and every room id of the snapshot is in the
\* room map; when the session key holds a well-formed session snapshot the
\* delta token is the snapshot's. A run over well-formed records never ends
\* with a Codec error.
C3_RoundTrip ==
    /\ (Assembled /\ Warm) =>
          /\ \A n \in DOMAIN Session.views :
                HasFrozenView(n) =>
                    /\ Session.views[n].name = n
                    /\ Session.views[n].rooms_count = FrozenViewOf(n).rooms_count
                    /\ Session.views[n].rooms_list = FrozenViewOf(n).rooms_list
                    /\ DOMAIN FrozenViewOf(n).rooms \subseteq DOMAIN Session.rooms
          /\ HasFrozenSync => Session.delta_token = FrozenSyncOf.delta_token
    /\ (Aborted /\ error = Some("Codec")) =>
          ~ /\ \A n \in DOMAIN ConfiguredViews : HasFrozenView(n)
            /\ HasFrozenSync

\* the case of the specification's example: one view, rooms_count 2,
\* rooms_list [X, Y], rooms {X}, since token and delta token both stored
C3_Witness ==
    /\ Assembled /\ Warm
    /\ HasFrozenSync
    /\ FrozenSyncOf = [to_device_since |-> Some("tok1"), delta_token |-> Some("dt1")]
    /\ \E n \in DOMAIN Session.views :
          /\ HasFrozenView(n)
          /\ Session.views[n].rooms_count = Some(2)
          /\ Session.views[n].rooms_list = <<"X", "Y">>
          /\ "X" \in DOMAIN Session.rooms
    /\ Session.delta_token = Some("dt1")

-----------------------------------------------------------------------------
(* C4 *)

\* C4: when the builder chain leaves the to-device extension unconfigured,
\* the assembled session has no to-device extension, whatever the session
\* snapshot holds.
C4_NoToDeviceCreated ==
    (Assembled /\ IsNone(ConfiguredToDevice)) =>
        \/ IsNone(Session.extensions)
        \/ IsNone(Unwrap(Session.extensions).to_device)

\* a since token was restored into a configuration without to-device extension
C4_Witness ==
    /\ Assembled /\ Warm
    /\ IsNone(ConfiguredToDevice)
    /\ HasFrozenSync
    /\ IsSome(FrozenSyncOf.to_device_since)
    /\ IsSome(Session.extensions)
    /\ IsNone(Unwrap(Session.extensions).to_device)

-----------------------------------------------------------------------------
(* C5 *)

\* C5: with a to-device extension configured, a session snapshot with a
\* since token replaces the extension's `since` by that token and keeps its
\* other fields; a session snapshot without since token leaves the extension
\* as configured.
C5_SinceInjected ==
    (Assembled /\ Warm /\ IsSome(ConfiguredToDevice) /\ HasFrozenSync) =>
        LET td == Unwrap(ConfiguredToDevice)
            got == Unwrap(Session.extensions).to_device
        IN  /\ IsSome(Session.extensions)
            /\ IsSome(got)
            /\ Unwrap(got).enabled = td.enabled
            /\ Unwrap(got).limit = td.limit
            /\ Unwrap(got).since =
                  IF IsSome(FrozenSyncOf.to_device_since)
                  THEN FrozenSyncOf.to_device_since ELSE td.since

\* the stored token replaced a different, configured since value
C5_Witness ==
    /\ Assembled /\ Warm /\ HasFrozenSync
    /\ IsSome(ConfiguredToDevice)
    /\ Unwrap(ConfiguredToDevice).since = Some("s0")
    /\ FrozenSyncOf.to_device_since = Some("tok1")
    /\ Unwrap(Unwrap(Session.extensions).to_device).since = Some("tok1")

-----------------------------------------------------------------------------
(* C6 *)

\* C6: the assembled session's delta token is the session snapshot's
\* delta_token whenever a session snapshot was found, whatever the extension
\* configuration and the snapshot's since token; it is absent when no session
\* snapshot was found (no storage key, or no record under it).
C6_DeltaToken ==
    Assembled =>
        IF Warm /\ HasFrozenSync
        THEN Session.delta_token = FrozenSyncOf.delta_token
        ELSE Session.delta_token = None

\* a delta token restored with no extension configured and no since token
C6_Witness ==
    /\ Assembled /\ Warm /\ HasFrozenSync
    /\ IsNone(ConfiguredExtensions)
    /\ IsNone(FrozenSyncOf.to_device_since)
    /\ Session.delta_token = Some("dt1")

-----------------------------------------------------------------------------
(* C7 *)

\* read number i went to a key whose bytes are no record of the expected kind
Malformed(i) ==
    /\ IsSome(kv[reads[i]])
    /\ IF reads[i] = SessionKey(TheKey)
       THEN ~HasFrozenSync
       ELSE \A f \in FrozenViews : kv[reads[i]] # Some(ViewBytes(f))

\* C7: a record that fails to deserialize aborts the bootstrap. As soon as a
\* run has read a malformed record it is Aborted, with an error and without
\* session, however many views it restored before; an assembled session has
\* read no malformed record.
C7_CodecAborts ==
    /\ (\E i \in 1..Len(reads) : Malformed(i)) =>
          /\ Aborted
          /\ IsSome(error)
          /\ IsNone(sliding_sync)
    /\ Aborted => (IsSome(error) /\ IsNone(sliding_sync))
    /\ Assembled => (IsNone(error) /\ IsSome(sliding_sync))

\* a view was restored from a well-formed record, then a later record failed
C7_Witness ==
    /\ Aborted
    /\ error = Some("Codec")
    /\ Len(reads) >= 2
    /\ ~Malformed(1)
    /\ IsSome(kv[reads[1]])
    /\ Malformed(Len(reads))

-----------------------------------------------------------------------------
(* C8 *)

\* C8: no step of the bootstrap, successful or failing, writes or deletes a
\* record: the key-value table is the same after every step.
C8_StoreUntouched == [][kv' = kv]_vars

\* a failed run, on a record that is still in the table
C8_Witness ==
    /\ Aborted
    /\ Len(reads) >= 1
    /\ IsSome(kv[reads[Len(reads)]])
    /\ error = Some("Codec")

-----------------------------------------------------------------------------
(* C9 *)

\* C9: a missing record is not an error. A run only fails on a failure of
\* the store itself or on a record that is present and malformed; in an
\* assembled session a view without stored record has its default cursor and
\* the room map holds only rooms of records that exist; with no record at
\* all the room map is empty and the delta token absent.
C9_MissIsNoError ==
    /\ Aborted =>
          \/ error = Some("BackendFailure")
          \/ error = Some("Codec") /\ Malformed(Len(reads))
    /\ (Assembled /\ Warm) =>
          /\ \A n \in DOMAIN Session.views :
                IsNone(ViewRecord(n)) =>
                    Session.views[n] = SlidingSyncView(n)
          /\ \A x \in DOMAIN Session.rooms :
                \E n \in DOMAIN Session.views : Holds(n, x)
          /\ (\A k \in Keys : IsNone(kv[k])) =>
                /\ Session.rooms = EmptyMap
                /\ Session.delta_token = None

\* a session assembled over an empty table, every configured key read and missed
C9_Witness ==
    /\ Assembled /\ Warm
    /\ \A k \in Keys : IsNone(kv[k])
    /\ Cardinality(DOMAIN Session.views) = 2
    /\ Len(reads) = 3
    /\ Session.rooms = EmptyMap

-----------------------------------------------------------------------------
(* C10 *)

\* C10: cold path. Without storage key the run issues no read and cannot
\* fail; the session has an empty room map, no delta token, no position, and
\* the views and the extension configuration are those configured.
C10_ColdPath ==
    (IsNone(ConfiguredStorageKey) /\ pc # "builder") =>
        /\ pc \in {"assemble", "Assembled"}
        /\ reads = <<>>
        /\ Assembled =>
              /\ Session.rooms = EmptyMap
              /\ Session.delta_token = None
              /\ Session.pos = None
              /\ Session.storage_key = None
              /\ Session.views = ConfiguredViews
              /\ Session.extensions = ConfiguredExtensions

\* a cold session although the table holds records for the configured views
C10_Witness ==
    /\ Assembled
    /\ IsNone(ConfiguredStorageKey)
    /\ DOMAIN Session.views = ViewNames
    /\ IsSome(Session.extensions)
    /\ \A k \in Keys : IsSome(kv[k])

-----------------------------------------------------------------------------
(* Store: the room cache in front of a StateStore backend                   *)

\* Room objects constructed in one behaviour
MaxInst == 3

RoomTypes == {"Joined", "Left", "Invited"}
Sessions == {[user_id |-> "@u"]}

\* RoomInfo: the persisted record of a room
RoomInfo(room_id, room_type) == [room_id |-> room_id, room_type |-> room_type]

\* Room::new: a new Room object, `inst` its identity
Room_new(user_id, room_id, room_type, inst) ==
    [room_id |-> room_id, room_type |-> room_type, own_user_id |-> user_id, inst |-> inst]

\* Room::restore: a new Room object from a persisted RoomInfo
Room_restore(user_id, info, inst) ==
    [room_id |-> info.room_id, room_type |-> info.room_type,
     own_user_id |-> user_id, inst |-> inst]

\* the room infos a backend may hold when a behaviour starts
ConfirmedInfos ==
    UNION {[S -> RoomTypes] : S \in SUBSET RoomIds}
StrippedInfos ==
    UNION {[S -> {"Invited"}] : S \in SUBSET RoomIds}
SyncTokens == {None, Some("t1")}

\* StateStore::get_room_infos / get_stripped_room_infos / get_sync_token
get_room_infos(b) == [id \in DOMAIN b.room_infos |-> RoomInfo(id, b.room_infos[id])]
get_stripped_room_infos(b) ==
    [id \in DOMAIN b.stripped_room_infos |-> RoomInfo(id, b.stripped_room_infos[id])]
get_sync_token(b) == b.sync_token

\* StateStore::remove_room: the room and all that belongs to it leave the backend
remove_room(b, room_id) ==
    [b EXCEPT !.room_infos = [id \in DOMAIN @ \ {room_id} |-> @[id]],
              !.stripped_room_infos = [id \in DOMAIN @ \ {room_id} |-> @[id]]]

RECURSIVE RestoreInto(_, _, _, _)
\* for info in infos { let room = Room::restore(..); partition.insert(room.room_id(), room) }
RestoreInto(partition, infos, user_id, n) ==
    IF DOMAIN infos = {} THEN partition
    ELSE LET id == CHOOSE i \in DOMAIN infos : TRUE
             rest == [j \in DOMAIN infos \ {id} |-> infos[j]]
             room == Room_restore(user_id, infos[id], n + 1)
         IN  RestoreInto(MapInsert(partition, room.room_id, room), rest, user_id, n + 1)

\* Store::get_stripped_room
get_stripped_room(sr, room_id) ==
    IF room_id \in DOMAIN sr THEN Some(sr[room_id]) ELSE None

\* get_room without the match on the room type: the confirmed entry whatever
\* its type
get_room_AnyType(r, sr, room_id) ==
    IF room_id \in DOMAIN r THEN Some(r[room_id]) ELSE get_stripped_room(sr, room_id)

\* get_room looking in the stripped partition first
get_room_StrippedFirst(r, sr, room_id) ==
    IF room_id \in DOMAIN sr THEN Some(sr[room_id])
    ELSE IF room_id \in DOMAIN r /\ r[room_id].room_type # "Invited"
    THEN Some(r[room_id]) ELSE None

\* Store::get_room
get_room(r, sr, room_id) ==
    LET found == IF room_id \in DOMAIN r
                 THEN IF r[room_id].room_type = "Invited"
                      THEN get_stripped_room(sr, room_id)
                      ELSE Some(r[room_id])
                 ELSE None
    IN  IF IsSome(found) THEN found ELSE get_stripped_room(sr, room_id)

RECURSIVE FilterMap(_, _, _)
\* order.filter_map(|key| lookup): the Some results, in iteration order
FilterMap(order, r, sr) ==
    IF order = <<>> THEN <<>>
    ELSE get_room(r, sr, Head(order)) \o FilterMap(Tail(order), r, sr)

\* the orders in which a DashMap may yield its keys
IterOrders(S) ==
    {q \in UNION {[1..n -> S] : n \in {Cardinality(S)}} :
        \A i, j \in DOMAIN q : i # j => q[i] # q[j]}

\* Store::get_rooms, the rooms map iterated in `order`
get_rooms(r, sr, order) == FilterMap(order, r, sr)

\* Store::get_stripped_rooms, the stripped map iterated in `order`
get_stripped_rooms(sr, order) ==
    [i \in DOMAIN order |-> sr[order[i]]]

\* get_or_create_stripped_room with insert() in place of
\* entry().or_insert_with(): every call constructs a Room
get_or_create_stripped_room_Fresh(sess, sr, n, room_id) ==
    IF IsNone(sess)
    THEN [outcome |-> "Panic", value |-> None, stripped_rooms |-> sr, n |-> n]
    ELSE LET room == Room_new(Unwrap(sess).user_id, room_id, "Invited", n + 1)
         IN  [outcome |-> "Ok", value |-> Some(room),
              stripped_rooms |-> MapInsert(sr, room_id, room), n |-> n + 1]

\* Store::get_or_create_stripped_room: the outcome, the Room returned, the
\* stripped partition and the object count after the call
get_or_create_stripped_room(sess, sr, n, room_id) ==
    IF IsNone(sess)
    THEN [outcome |-> "Panic", value |-> None, stripped_rooms |-> sr, n |-> n]
    ELSE IF room_id \in DOMAIN sr
    THEN [outcome |-> "Ok", value |-> Some(sr[room_id]), stripped_rooms |-> sr, n |-> n]
    ELSE LET room == Room_new(Unwrap(sess).user_id, room_id, "Invited", n + 1)
         IN  [outcome |-> "Ok", value |-> Some(room),
              stripped_rooms |-> MapInsert(sr, room_id, room), n |-> n + 1]

\* get_or_create_room with insert() in place of entry().or_insert_with():
\* every call constructs a Room
get_or_create_room_Fresh(sess, r, sr, n, room_id, room_type) ==
    IF IsNone(sess)
    THEN [outcome |-> "Panic", value |-> None, rooms |-> r, stripped_rooms |-> sr, n |-> n]
    ELSE LET room == Room_new(Unwrap(sess).user_id, room_id, room_type, n + 1)
         IN  IF room_type = "Invited"
             THEN [outcome |-> "Ok", value |-> Some(room), rooms |-> r,
                   stripped_rooms |-> MapInsert(sr, room_id, room), n |-> n + 1]
             ELSE [outcome |-> "Ok", value |-> Some(room),
                   rooms |-> MapInsert(r, room_id, room), stripped_rooms |-> sr,
                   n |-> n + 1]

\* get_or_create_room that gives a cached Room the type asked for
get_or_create_room_Retyping(sess, r, sr, n, room_id, room_type) ==
    IF room_type = "Invited"
    THEN LET s == get_or_create_stripped_room(sess, sr, n, room_id)
         IN  [outcome |-> s.outcome, value |-> s.value, rooms |-> r,
              stripped_rooms |-> s.stripped_rooms, n |-> s.n]
    ELSE IF IsNone(sess)
    THEN [outcome |-> "Panic", value |-> None, rooms |-> r, stripped_rooms |-> sr, n |-> n]
    ELSE IF room_id \in DOMAIN r
    THEN LET room == [r[room_id] EXCEPT !.room_type = room_type]
         IN  [outcome |-> "Ok", value |-> Some(room),
              rooms |-> MapInsert(r, room_id, room), stripped_rooms |-> sr, n |-> n]
    ELSE LET room == Room_new(Unwrap(sess).user_id, room_id, room_type, n + 1)
         IN  [outcome |-> "Ok", value |-> Some(room),
              rooms |-> MapInsert(r, room_id, room), stripped_rooms |-> sr, n |-> n + 1]

\* Store::get_or_create_room: the outcome, the Room returned, both partitions
\* and the object count after the call
get_or_create_room(sess, r, sr, n, room_id, room_type) ==
    IF room_type = "Invited"
    THEN LET s == get_or_create_stripped_room(sess, sr, n, room_id)
         IN  [outcome |-> s.outcome, value |-> s.value, rooms |-> r,
              stripped_rooms |-> s.stripped_rooms, n |-> s.n]
    ELSE IF IsNone(sess)
    THEN [outcome |-> "Panic", value |-> None, rooms |-> r, stripped_rooms |-> sr, n |-> n]
    ELSE IF room_id \in DOMAIN r
    THEN [outcome |-> "Ok", value |-> Some(r[room_id]), rooms |-> r,
          stripped_rooms |-> sr, n |-> n]
    ELSE LET room == Room_new(Unwrap(sess).user_id, room_id, room_type, n + 1)
         IN  [outcome |-> "Ok", value |-> Some(room),
              rooms |-> MapInsert(r, room_id, room), stripped_rooms |-> sr, n |-> n + 1]

\* the record of a completed call
Call(op, room_id, room_type, outcome, value) ==
    [op |-> op, room_id |-> room_id, room_type |-> room_type, outcome |-> outcome,
     value |-> value, prior |-> None, clean |-> FALSE, touched |-> FALSE]

restoreVars == <<rs_pc, rs_session, rs_hist>>
gocVars == <<goc_watch, goc_ret, goc_clean>>

\* a new Store over one of `backends`, the history kept for one of `watches`
StoreOver(backends, watches) ==
    /\ backend \in backends
    /\ goc_watch \in watches
    /\ StoreNew
    /\ ChangesIdle
    /\ builder = BuilderDefault
    /\ calls = 0
    /\ add_log = <<>>
    /\ called = NoBuilderCall
    /\ kv = [k \in Keys |-> None]
    /\ pc = "builder"
    /\ storage_key = None
    /\ views = EmptyMap
    /\ extensions = None
    /\ delta_token_inner = None
    /\ rooms_found = EmptyMap
    /\ iter = <<>>
    /\ reads = <<>>
    /\ sliding_sync = None
    /\ error = None

Backends ==
    {[room_infos |-> ci, stripped_room_infos |-> si, sync_token |-> t] :
        ci \in ConfirmedInfos, si \in StrippedInfos, t \in SyncTokens}

InitStore == StoreOver(Backends, {None})

GetOrCreateRoom == \E room_id \in RoomIds, room_type \in RoomTypes :
    LET r == get_or_create_room(session, rooms, stripped_rooms, next_inst,
                                room_id, room_type)
        key == <<room_id, room_type>>
    IN  /\ r.n <= MaxInst
        /\ rooms' = r.rooms
        /\ stripped_rooms' = r.stripped_rooms
        /\ next_inst' = r.n
        /\ ret' = [Call("get_or_create_room", room_id, room_type, r.outcome, r.value)
                     EXCEPT !.prior = IF goc_watch = Some(key) THEN goc_ret ELSE None,
                            !.clean = goc_watch = Some(key) /\ goc_clean,
                            !.touched = r.rooms # rooms
                                          \/ r.stripped_rooms # stripped_rooms]
        /\ IF r.outcome = "Ok" /\ goc_watch = Some(key)
           THEN /\ goc_ret' = r.value
                /\ goc_clean' = TRUE
                /\ UNCHANGED goc_watch
           ELSE UNCHANGED gocVars
        /\ UNCHANGED <<backend, session, sync_token, restoreVars>>
        /\ UNCHANGED <<bootVars, changesVars, taskVars>>

GetOrCreateStrippedRoom == \E room_id \in RoomIds :
    LET r == get_or_create_stripped_room(session, stripped_rooms, next_inst, room_id)
    IN  /\ r.n <= MaxInst
        /\ stripped_rooms' = r.stripped_rooms
        /\ next_inst' = r.n
        /\ ret' = [Call("get_or_create_stripped_room", room_id, "Invited",
                        r.outcome, r.value)
                     EXCEPT !.touched = r.stripped_rooms # stripped_rooms]
        /\ UNCHANGED <<backend, session, sync_token, rooms, restoreVars, gocVars>>
        /\ UNCHANGED <<bootVars, changesVars, taskVars>>

\* a read of the cache: nothing but the call record changes
StoreRead(call) ==
    /\ ret' = call
    /\ UNCHANGED <<backend, session, sync_token, rooms, stripped_rooms, next_inst,
                   restoreVars, gocVars>>
    /\ UNCHANGED <<bootVars, changesVars, taskVars>>

GetRoom == \E room_id \in RoomIds :
    StoreRead(Call("get_room", room_id, "", "Ok", get_room(rooms, stripped_rooms, room_id)))

GetStrippedRoom == \E room_id \in RoomIds :
    StoreRead(Call("get_stripped_room", room_id, "", "Ok",
                   get_stripped_room(stripped_rooms, room_id)))

GetRooms == \E order \in IterOrders(DOMAIN rooms) :
    StoreRead(Call("get_rooms", "", "", "Ok", get_rooms(rooms, stripped_rooms, order)))

GetStrippedRooms == \E order \in IterOrders(DOMAIN stripped_rooms) :
    StoreRead(Call("get_stripped_rooms", "", "", "Ok",
                   get_stripped_rooms(stripped_rooms, order)))

\* a restore_session that clears the cached sync token when it fails
RestoreFails_Reset(h) ==
    /\ rs_pc' = "idle"
    /\ rs_session' = None
    /\ rs_hist' = NoRestore
    /\ ret' = [Call("restore_session", "", "", "Err", <<"BackendFailure">>)
                 EXCEPT !.prior = Some(h)]
    /\ sync_token' = None
    /\ UNCHANGED <<session, rooms, stripped_rooms, next_inst, gocVars>>

\* restore_session fails at one of its `?`: the future ends with the error
RestoreFails(h) ==
    /\ rs_pc' = "idle"
    /\ rs_session' = None
    /\ rs_hist' = NoRestore
    /\ ret' = [Call("restore_session", "", "", "Err", <<"BackendFailure">>)
                 EXCEPT !.prior = Some(h)]
    /\ UNCHANGED <<session, sync_token, rooms, stripped_rooms, next_inst, gocVars>>

\* restore_session, first stage: get_room_infos().await? and the inserts
\* into `rooms`
RestoreConfirmed ==
    /\ rs_pc = "idle"
    /\ \E sess \in Sessions, backend_ok \in BOOLEAN :
        LET before == [session |-> session, sync_token |-> sync_token,
                       rooms |-> DOMAIN rooms, stripped_rooms |-> DOMAIN stripped_rooms,
                       confirmed |-> {}, stripped |-> {}]
            infos == get_room_infos(backend)
        IN  IF ~backend_ok
            THEN RestoreFails(before)
            ELSE /\ next_inst + Cardinality(DOMAIN infos) <= MaxInst
                 /\ rooms' = RestoreInto(rooms, infos, sess.user_id, next_inst)
                 /\ next_inst' = next_inst + Cardinality(DOMAIN infos)
                 /\ rs_pc' = "stripped"
                 /\ rs_session' = Some(sess)
                 /\ rs_hist' = [before EXCEPT !.confirmed = DOMAIN infos]
                 /\ goc_clean' = FALSE
                 /\ UNCHANGED <<session, sync_token, stripped_rooms, ret, goc_watch,
                                goc_ret>>
    /\ UNCHANGED backend
    /\ UNCHANGED <<bootVars, changesVars, taskVars>>

\* restore_session, second stage: get_stripped_room_infos().await? and the
\* inserts into `stripped_rooms`
RestoreStripped ==
    /\ rs_pc = "stripped"
    /\ \E backend_ok \in BOOLEAN :
        LET infos == get_stripped_room_infos(backend) IN
            IF ~backend_ok
            THEN RestoreFails(rs_hist)
            ELSE /\ next_inst + Cardinality(DOMAIN infos) <= MaxInst
                 /\ stripped_rooms' =
                        RestoreInto(stripped_rooms, infos, Unwrap(rs_session).user_id,
                                    next_inst)
                 /\ next_inst' = next_inst + Cardinality(DOMAIN infos)
                 /\ rs_pc' = "token"
                 /\ rs_hist' = [rs_hist EXCEPT !.stripped = DOMAIN infos]
                 /\ goc_clean' = FALSE
                 /\ UNCHANGED <<session, sync_token, rooms, rs_session, ret, goc_watch,
                                goc_ret>>
    /\ UNCHANGED backend
    /\ UNCHANGED <<bootVars, changesVars, taskVars>>

\* mutant: the token read is dropped, the cached token is not written
RestoreToken_NoWrite ==
    /\ rs_pc = "token"
    /\ \E backend_ok \in BOOLEAN :
            IF ~backend_ok
            THEN RestoreFails(rs_hist)
            ELSE /\ rs_pc' = "install"
                 /\ UNCHANGED <<session, sync_token, rooms, stripped_rooms, next_inst,
                                rs_session, rs_hist, ret, gocVars>>
    /\ UNCHANGED backend
    /\ UNCHANGED <<bootVars, changesVars, taskVars>>

\* restore_session, third stage: get_sync_token().await? and the write of
\* the cached token
RestoreToken ==
    /\ rs_pc = "token"
    /\ \E backend_ok \in BOOLEAN :
            IF ~backend_ok
            THEN RestoreFails(rs_hist)
            ELSE /\ sync_token' = get_sync_token(backend)
                 /\ rs_pc' = "install"
                 /\ UNCHANGED <<session, rooms, stripped_rooms, next_inst, rs_session,
                                rs_hist, ret, gocVars>>
    /\ UNCHANGED backend
    /\ UNCHANGED <<bootVars, changesVars, taskVars>>

\* restore_session, last stage: *self.session.write().await = Some(session); Ok(())
RestoreInstall ==
    /\ rs_pc = "install"
    /\ session' = rs_session
    /\ rs_pc' = "idle"
    /\ rs_session' = None
    /\ rs_hist' = NoRestore
    /\ ret' = [Call("restore_session", "", "", "Ok", <<>>) EXCEPT !.prior = Some(rs_hist)]
    /\ UNCHANGED <<backend, sync_token, rooms, stripped_rooms, next_inst, gocVars>>
    /\ UNCHANGED <<bootVars, changesVars, taskVars>>

\* remove_room called on the Store: Deref hands the call to the backend
RemoveRoom == \E room_id \in RoomIds, backend_ok \in BOOLEAN :
    /\ IF backend_ok
       THEN /\ backend' = remove_room(backend, room_id)
            /\ ret' = Call("remove_room", room_id, "", "Ok", <<>>)
       ELSE /\ UNCHANGED backend
            /\ ret' = Call("remove_room", room_id, "", "Err", <<"BackendFailure">>)
    /\ UNCHANGED <<session, sync_token, rooms, stripped_rooms, next_inst,
                   restoreVars, gocVars>>
    /\ UNCHANGED <<bootVars, changesVars, taskVars>>

NextStore ==
    \/ GetOrCreateRoom
    \/ GetOrCreateStrippedRoom
    \/ GetRoom
    \/ GetStrippedRoom
    \/ GetRooms
    \/ GetStrippedRooms
    \/ RestoreConfirmed
    \/ RestoreStripped
    \/ RestoreToken
    \/ RestoreInstall
    \/ RemoveRoom

SpecStore == InitStore /\ [][NextStore]_vars

\* the same Store, with the history of one get_or_create_room(id, type) kept
InitIdem ==
    StoreOver({b \in Backends : /\ DOMAIN b.room_infos \subseteq {"X"}
                                /\ DOMAIN b.stripped_room_infos \subseteq {"X"}
                                /\ IsSome(b.sync_token)},
              {Some(k) : k \in {"X"} \X {"Joined", "Invited"}})

SpecIdem == InitIdem /\ [][NextStore]_vars

-----------------------------------------------------------------------------
(* Store: creation without a session                                        *)

\* a get_or_create call that has completed
Created == ret.op \in {"get_or_create_room", "get_or_create_stripped_room"}

\* C11: get_or_create_room and get_or_create_stripped_room, called while no
\* session is installed, fail with the error value NoActiveSession: they do
\* not panic, they create no room and they leave both partitions unchanged.
\* (No session is ever uninstalled, so a Store without a session had none
\* when the call was made.)
C11_NoActiveSession ==
    (Created /\ IsNone(session)) =>
        /\ ret.outcome = "Err"
        /\ ret.value = <<"NoActiveSession">>
        /\ ~ret.touched

-----------------------------------------------------------------------------
(* Store: get_or_create_room called twice                                   *)

\* a get_or_create_room(id, type) that returned, an earlier call with the same
\* (id, type) having returned before it
CalledAgain ==
    /\ ret.op = "get_or_create_room"
    /\ ret.outcome = "Ok"
    /\ IsSome(ret.prior)

\* C12 as stated: with a session installed, a second get_or_create_room with
\* the same (id, type), after any interleaving of other Store operations,
\* returns the Room instance the first call returned and changes no
\* partition.
C12_Idempotent ==
    CalledAgain => (ret.value = ret.prior /\ ~ret.touched)

\* C12: a second get_or_create_room with the same (id, type) changes no
\* partition, and it returns the Room instance the first call returned
\* provided no restore_session inserted rooms between the two calls.
C12_IdempotentBetweenRestores ==
    CalledAgain =>
        /\ ~ret.touched
        /\ ret.clean => ret.value = ret.prior

\* a second call that found the first call's Room, a get_or_create_stripped_room
\* for the same id having come in between
C12_Witness ==
    /\ CalledAgain
    /\ ret.clean
    /\ ret.room_type = "Joined"
    /\ ret.room_id \in DOMAIN stripped_rooms
    /\ ret.value = ret.prior

-----------------------------------------------------------------------------
(* Store: get_room and the two partitions                                   *)

\* the confirmed partition holds an entry for room_id, and its type is Invited
ConfirmedInvited(room_id) ==
    room_id \in DOMAIN rooms /\ rooms[room_id].room_type = "Invited"

\* C13: while the confirmed partition holds an Invited entry for an id,
\* get_room(id) does not return that entry: it returns the stripped entry for
\* the id if there is one, and nothing otherwise.
C13_InvitedNeverReturned ==
    \A room_id \in RoomIds :
        ConfirmedInvited(room_id) =>
            /\ get_room(rooms, stripped_rooms, room_id) # Some(rooms[room_id])
            /\ get_room(rooms, stripped_rooms, room_id) =
                   get_stripped_room(stripped_rooms, room_id)

\* get_room("X") has returned the stripped Room while the confirmed partition
\* holds an Invited entry for X; for Y, Invited too, there is no stripped Room
C13_Witness ==
    /\ ConfirmedInvited("X")
    /\ ConfirmedInvited("Y")
    /\ ret.op = "get_room"
    /\ ret.room_id = "X"
    /\ IsSome(ret.value)
    /\ ret.value = get_stripped_room(stripped_rooms, "X")
    /\ "Y" \notin DOMAIN stripped_rooms

\* get_room(room_id) returns the Room of the stripped partition
FromStripped(room_id) ==
    /\ room_id \in DOMAIN stripped_rooms
    /\ get_room(rooms, stripped_rooms, room_id) = Some(stripped_rooms[room_id])

\* C14 as stated: whenever get_room(id) returns a Room taken from the stripped
\* partition, the confirmed partition holds an entry for id, of type Invited.
C14_FallbackOnlyInvited ==
    \A room_id \in RoomIds : FromStripped(room_id) => ConfirmedInvited(room_id)

\* C14: whenever get_room(id) returns a Room taken from the stripped
\* partition, the confirmed partition holds no Joined or Left entry for id:
\* it holds no entry for id at all, or one of type Invited.
C14_FallbackNeverShadows ==
    \A room_id \in RoomIds :
        FromStripped(room_id) =>
            (room_id \notin DOMAIN rooms \/ ConfirmedInvited(room_id))

\* get_room("X") has returned the stripped Room, the confirmed partition
\* holding nothing for X and a Joined room for Y, which has a stripped Room too
C14_Witness ==
    /\ ret.op = "get_room"
    /\ ret.room_id = "X"
    /\ FromStripped("X")
    /\ ret.value = Some(stripped_rooms["X"])
    /\ "X" \notin DOMAIN rooms
    /\ "Y" \in DOMAIN rooms
    /\ rooms["Y"].room_type = "Joined"
    /\ "Y" \in DOMAIN stripped_rooms

\* room_id resolves as a confirmed room: get_room or get_rooms yields a
\* Joined or Left Room for it
ResolvesConfirmed(room_id) ==
    \/ LET g == get_room(rooms, stripped_rooms, room_id)
       IN  IsSome(g) /\ Unwrap(g).room_type \in {"Joined", "Left"}
    \/ \E order \in IterOrders(DOMAIN rooms) :
          LET l == get_rooms(rooms, stripped_rooms, order)
          IN  \E i \in DOMAIN l : /\ l[i].room_id = room_id
                                  /\ l[i].room_type \in {"Joined", "Left"}

\* room_id resolves as a stripped room: get_stripped_room or
\* get_stripped_rooms yields a Room for it
ResolvesStripped(room_id) ==
    \/ IsSome(get_stripped_room(stripped_rooms, room_id))
    \/ \E order \in IterOrders(DOMAIN stripped_rooms) :
          LET l == get_stripped_rooms(stripped_rooms, order)
          IN  \E i \in DOMAIN l : l[i].room_id = room_id

\* C15: after any sequence of restore_session, get_or_create_room and
\* get_or_create_stripped_room calls, no room id is resolvable both as a
\* confirmed (Joined or Left) room through get_room / get_rooms and as a
\* stripped room through get_stripped_room / get_stripped_rooms.
C15_Disjoint ==
    \A room_id \in RoomIds : ~(ResolvesConfirmed(room_id) /\ ResolvesStripped(room_id))

\* how often room_id occurs in a list of Rooms
Occurrences(list, room_id) ==
    Cardinality({i \in DOMAIN list : list[i].room_id = room_id})

\* C16: an id occurs in get_rooms() if and only if get_room(id) returns a
\* Room, and then it occurs once; likewise for get_stripped_rooms() and
\* get_stripped_room(id).
C16_ListingMatchesLookup ==
    \A room_id \in RoomIds :
        /\ \A order \in IterOrders(DOMAIN rooms) :
              Occurrences(get_rooms(rooms, stripped_rooms, order), room_id) =
                  IF IsSome(get_room(rooms, stripped_rooms, room_id)) THEN 1 ELSE 0
        /\ \A order \in IterOrders(DOMAIN stripped_rooms) :
              Occurrences(get_stripped_rooms(stripped_rooms, order), room_id) =
                  IF IsSome(get_stripped_room(stripped_rooms, room_id)) THEN 1 ELSE 0

-----------------------------------------------------------------------------
(* Store: remove_room                                                       *)

\* C17: after remove_room(id) has succeeded on the Store, get_room(id) and
\* get_stripped_room(id) return nothing and neither get_rooms() nor
\* get_stripped_rooms() contains id.
C17_RemovedIsGone ==
    (ret.op = "remove_room" /\ ret.outcome = "Ok") =>
        /\ IsNone(get_room(rooms, stripped_rooms, ret.room_id))
        /\ IsNone(get_stripped_room(stripped_rooms, ret.room_id))
        /\ \A order \in IterOrders(DOMAIN rooms) :
              Occurrences(get_rooms(rooms, stripped_rooms, order), ret.room_id) = 0
        /\ \A order \in IterOrders(DOMAIN stripped_rooms) :
              Occurrences(get_stripped_rooms(stripped_rooms, order), ret.room_id) = 0

-----------------------------------------------------------------------------
(* Store: restore_session and a failing backend                             *)

\* the last restore_session failed, and none was called since
RestoreFailed ==
    /\ ret.op = "restore_session"
    /\ ret.outcome = "Err"
    /\ rs_pc = "idle"

\* C18: when a backend read fails during restore_session, the call returns
\* that error, the session is not installed and the cached sync token is
\* not changed; the rooms the call inserted before the failure stay in their
\* partition, and no room present before the call is removed.
C18_FailedRestore ==
    RestoreFailed =>
        LET before == Unwrap(ret.prior) IN
            /\ ret.value = <<"BackendFailure">>
            /\ session = before.session
            /\ sync_token = before.sync_token
            /\ before.confirmed \subseteq DOMAIN rooms
            /\ before.stripped \subseteq DOMAIN stripped_rooms
            /\ before.rooms \subseteq DOMAIN rooms
            /\ before.stripped_rooms \subseteq DOMAIN stripped_rooms

\* get_sync_token failed on the first restore_session of a Store: a confirmed
\* and a stripped room are inserted, there is no session, and the cached token
\* is absent although the backend holds one
C18_Witness ==
    /\ RestoreFailed
    /\ Unwrap(ret.prior).confirmed # {}
    /\ Unwrap(ret.prior).stripped # {}
    /\ IsNone(session)
    /\ IsNone(sync_token)
    /\ IsSome(backend.sync_token)

-----------------------------------------------------------------------------
(* StateChanges: the add_* operations                                       *)

\* add_* calls made on one StateChanges value
MaxAdds == 3

UserIds == {"@a", "@b"}
EventTypes == {"m.t1", "m.t2"}
Events == {"e1", "e2"}
RoomInfos == {RoomInfo(id, t) : id \in RoomIds, t \in {"Joined", "Invited"}}

\* map.entry(k).or_insert_with(|| d): the map afterwards
OrInsertWith(m, k, d) == IF k \in DOMAIN m THEN m ELSE MapInsert(m, k, d)

\* map.entry(k).or_insert_with(BTreeMap::new).insert(k2, v): the map afterwards
NestedInsert(m, k, k2, v) ==
    LET m1 == OrInsertWith(m, k, EmptyMap)
    IN  MapInsert(m1, k, MapInsert(m1[k], k2, v))

\* StateChanges::add_presence_event
add_presence_event(c, event, raw_event) ==
    [c EXCEPT !.presence = MapInsert(@, event.sender, raw_event)]

\* StateChanges::add_room
add_room(c, room) ==
    [c EXCEPT !.room_infos = MapInsert(@, room.room_id, room)]

\* StateChanges::add_stripped_room
add_stripped_room(c, room) ==
    [c EXCEPT !.stripped_room_infos = MapInsert(@, room.room_id, room)]

\* StateChanges::add_account_data
add_account_data(c, event, raw_event) ==
    [c EXCEPT !.account_data = MapInsert(@, event.event_type, raw_event)]

\* StateChanges::add_room_account_data
add_room_account_data(c, room_id, event, raw_event) ==
    [c EXCEPT !.room_account_data = NestedInsert(@, room_id, event.event_type, raw_event)]

\* StateChanges::add_stripped_member
add_stripped_member(c, room_id, event) ==
    LET user_id == event.state_key
    IN  [c EXCEPT !.stripped_members = NestedInsert(@, room_id, user_id, event)]

\* add_state_event with insert(event_type, ..) in place of the inner entry():
\* the events of the type are dropped
add_state_event_NewInner(c, room_id, event, raw_event) ==
    [c EXCEPT !.state =
        NestedInsert(@, room_id, event.event_type,
                     MapInsert(EmptyMap, event.state_key, raw_event))]

\* StateChanges::add_state_event
add_state_event(c, room_id, event, raw_event) ==
    LET rooms1 == OrInsertWith(c.state, room_id, EmptyMap)
        types1 == OrInsertWith(rooms1[room_id], event.event_type, EmptyMap)
        keys1 == MapInsert(types1[event.event_type], event.state_key, raw_event)
    IN  [c EXCEPT !.state =
            MapInsert(rooms1, room_id, MapInsert(types1, event.event_type, keys1))]

\* add_notification with insert() of a one-element Vec in place of push()
add_notification_Insert(c, room_id, notification) ==
    [c EXCEPT !.notifications = MapInsert(@, room_id, <<notification>>)]

\* StateChanges::add_notification
add_notification(c, room_id, notification) ==
    LET m1 == OrInsertWith(c.notifications, room_id, <<>>)
    IN  [c EXCEPT !.notifications = MapInsert(m1, room_id, Append(m1[room_id], notification))]

\* StateChanges::add_receipts
add_receipts(c, room_id, event) ==
    [c EXCEPT !.receipts = MapInsert(@, room_id, event)]

\* StateChanges::add_timeline
add_timeline(c, room_id, timeline) ==
    [c EXCEPT !.timeline = MapInsert(@, room_id, timeline)]

\* the values passed so far to operation `op` under the key (k1, k2, k3)
Passed(h, op, k1, k2, k3) ==
    IF <<op, k1, k2, k3>> \in DOMAIN h THEN h[<<op, k1, k2, k3>>] ELSE <<>>

\* one add_* call: the StateChanges value becomes c, the call is recorded
AddCall(c, op, k1, k2, k3, value) ==
    /\ adds < MaxAdds
    /\ changes' = c
    /\ adds' = adds + 1
    /\ hist' = MapInsert(hist, <<op, k1, k2, k3>>,
                         Append(Passed(hist, op, k1, k2, k3), value))
    /\ UNCHANGED <<bootVars, storeVars, taskVars>>

AddPresenceEvent == \E sender \in UserIds, raw_event \in Events :
    AddCall(add_presence_event(changes, [sender |-> sender], raw_event),
            "add_presence_event", sender, "", "", raw_event)

AddRoom == \E room \in RoomInfos :
    AddCall(add_room(changes, room), "add_room", room.room_id, "", "", room)

AddStrippedRoom == \E room \in RoomInfos :
    AddCall(add_stripped_room(changes, room),
            "add_stripped_room", room.room_id, "", "", room)

AddAccountData == \E event_type \in EventTypes, raw_event \in Events :
    AddCall(add_account_data(changes, [event_type |-> event_type], raw_event),
            "add_account_data", event_type, "", "", raw_event)

AddRoomAccountData ==
    \E room_id \in RoomIds, event_type \in EventTypes, raw_event \in Events :
        AddCall(add_room_account_data(changes, room_id, [event_type |-> event_type],
                                      raw_event),
                "add_room_account_data", room_id, event_type, "", raw_event)

AddStrippedMember ==
    \E room_id \in RoomIds, user_id \in UserIds, content \in Events :
        LET event == [state_key |-> user_id, content |-> content]
        IN  AddCall(add_stripped_member(changes, room_id, event),
                    "add_stripped_member", room_id, user_id, "", event)

AddStateEvent ==
    \E room_id \in RoomIds, event_type \in EventTypes, state_key \in UserIds,
       raw_event \in Events :
        AddCall(add_state_event(changes, room_id,
                                [event_type |-> event_type, state_key |-> state_key],
                                raw_event),
                "add_state_event", room_id, event_type, state_key, raw_event)

AddNotification == \E room_id \in RoomIds, notification \in Events :
    AddCall(add_notification(changes, room_id, notification),
            "add_notification", room_id, "", "", notification)

AddReceipts == \E room_id \in RoomIds, event \in Events :
    AddCall(add_receipts(changes, room_id, event), "add_receipts", room_id, "", "", event)

AddTimeline == \E room_id \in RoomIds, timeline \in Events :
    AddCall(add_timeline(changes, room_id, timeline),
            "add_timeline", room_id, "", "", timeline)

\* StateChanges::default(), beside a new Store over an empty backend
InitChanges ==
    StoreOver({[room_infos |-> EmptyMap, stripped_room_infos |-> EmptyMap,
                sync_token |-> None]}, {None})

NextChanges ==
    \/ AddPresenceEvent
    \/ AddRoom
    \/ AddStrippedRoom
    \/ AddAccountData
    \/ AddRoomAccountData
    \/ AddStrippedMember
    \/ AddStateEvent
    \/ AddNotification
    \/ AddReceipts
    \/ AddTimeline

SpecChanges == InitChanges /\ [][NextChanges]_vars

-----------------------------------------------------------------------------
(* StateChanges: last write wins                                            *)

\* the value a map holds under a key, if any
Lookup(m, k) == IF k \in DOMAIN m THEN Some(m[k]) ELSE None

\* the value a map of maps holds under (k, k2), if any
Lookup2(m, k, k2) == IF k \in DOMAIN m THEN Lookup(m[k], k2) ELSE None

\* the event the state map holds for (room id, event type, state key), if any
StateEventAt(c, room_id, event_type, state_key) ==
    IF room_id \in DOMAIN c.state
    THEN Lookup2(c.state[room_id], event_type, state_key)
    ELSE None

\* the last of the values passed, if any was
LastOf(passed) == IF passed = <<>> THEN None ELSE Some(passed[Len(passed)])

\* C19: after any sequence of add_state_event calls, among calls of the
\* other add_* operations, the state map holds for each (room id, event
\* type, state key) exactly the event of the last add_state_event call with
\* that triple, and nothing for a triple no call was made with: a call
\* affects no other triple.
C19_LastEventPerTriple ==
    \A room_id \in RoomIds, event_type \in EventTypes, state_key \in UserIds :
        StateEventAt(changes, room_id, event_type, state_key) =
            LastOf(Passed(hist, "add_state_event", room_id, event_type, state_key))

\* (X, m.t1, @a) was written twice and holds the second event, and its
\* sibling (X, m.t1, @b), written once, holds its own
C19_Witness ==
    /\ Passed(hist, "add_state_event", "X", "m.t1", "@a") = <<"e1", "e2">>
    /\ Passed(hist, "add_state_event", "X", "m.t1", "@b") = <<"e1">>
    /\ StateEventAt(changes, "X", "m.t1", "@a") = Some("e2")
    /\ StateEventAt(changes, "X", "m.t1", "@b") = Some("e1")

\* the upserts into a map keyed by one id hold the last value passed
FlatUpsertsKeepLast ==
    /\ \A sender \in UserIds :
          Lookup(changes.presence, sender) =
              LastOf(Passed(hist, "add_presence_event", sender, "", ""))
    /\ \A event_type \in EventTypes :
          Lookup(changes.account_data, event_type) =
              LastOf(Passed(hist, "add_account_data", event_type, "", ""))
    /\ \A room_id \in RoomIds :
          /\ Lookup(changes.room_infos, room_id) =
                 LastOf(Passed(hist, "add_room", room_id, "", ""))
          /\ Lookup(changes.stripped_room_infos, room_id) =
                 LastOf(Passed(hist, "add_stripped_room", room_id, "", ""))
          /\ Lookup(changes.receipts, room_id) =
                 LastOf(Passed(hist, "add_receipts", room_id, "", ""))
          /\ Lookup(changes.timeline, room_id) =
                 LastOf(Passed(hist, "add_timeline", room_id, "", ""))

\* the upserts into a map of maps hold the last value passed
NestedUpsertsKeepLast ==
    \A room_id \in RoomIds :
        /\ \A event_type \in EventTypes :
              Lookup2(changes.room_account_data, room_id, event_type) =
                  LastOf(Passed(hist, "add_room_account_data", room_id, event_type, ""))
        /\ \A user_id \in UserIds :
              Lookup2(changes.stripped_members, room_id, user_id) =
                  LastOf(Passed(hist, "add_stripped_member", room_id, user_id, ""))

\* C20 as stated: for every upsert operation (add_presence_event, add_room,
\* add_stripped_room, add_account_data, add_room_account_data,
\* add_stripped_member, add_notification, add_receipts, add_timeline),
\* repeated upserts to the same key retain only the last value.
C20_LastWriteWins ==
    /\ FlatUpsertsKeepLast
    /\ NestedUpsertsKeepLast
    /\ \A room_id \in RoomIds :
          LET passed == Passed(hist, "add_notification", room_id, "", "")
          IN  Lookup(changes.notifications, room_id) =
                  IF passed = <<>> THEN None ELSE Some(<<passed[Len(passed)]>>)

\* C20: repeated upserts to the same key retain only the last value for
\* add_presence_event, add_room, add_stripped_room, add_account_data,
\* add_room_account_data, add_stripped_member, add_receipts and add_timeline;
\* add_notification retains, per room, every notification passed, in call
\* order.
C20_NotificationsAccumulate ==
    /\ FlatUpsertsKeepLast
    /\ NestedUpsertsKeepLast
    /\ \A room_id \in RoomIds :
          LET passed == Passed(hist, "add_notification", room_id, "", "")
          IN  Lookup(changes.notifications, room_id) =
                  IF passed = <<>> THEN None ELSE Some(passed)

\* two notifications for room X are both held, in call order, and the
\* receipts of X, added after them, are held too
C20_Witness ==
    /\ Passed(hist, "add_notification", "X", "", "") = <<"e2", "e1">>
    /\ Lookup(changes.notifications, "X") = Some(<<"e2", "e1">>)
    /\ Lookup(changes.receipts, "X") = Some("e1")
    /\ adds = 3

-----------------------------------------------------------------------------
(* SlidingSyncBuilder: the extension bundles and the individual setters     *)

ExtensionFields == {"to_device", "e2ee", "account_data", "receipt", "typing"}

\* the extensions a bundle covers
Covers(op) ==
    IF op = "with_common_extensions"
    THEN {"to_device", "e2ee", "account_data"}
    ELSE ExtensionFields

\* the default configuration of an extension with enabled = true
EnabledDefault(field) == IF field = "to_device" THEN ToDeviceEnabled ELSE ToggleEnabled

\* the configuration of one extension in a builder: absent or Some(config)
ExtensionOf(self, field) == ExtCfg(self)[field]

\* the last call on the builder chain was a bundle
BundleCalled ==
    /\ pc = "builder"
    /\ called.op \in {"with_common_extensions", "with_all_extensions"}

\* C21: with_common_extensions and with_all_extensions only fill extension
\* fields that are absent: a field configured before the call has the same
\* value after it, an absent field the bundle covers becomes the default
\* configuration with enabled = true, and a field the bundle does not cover
\* (receipt and typing for the common bundle) is unchanged.
C21_BundlesFillAbsent ==
    BundleCalled =>
        \A field \in ExtensionFields :
            ExtensionOf(builder, field) =
                IF IsSome(ExtensionOf(called.self, field))
                THEN ExtensionOf(called.self, field)
                ELSE IF field \in Covers(called.op)
                THEN Some(EnabledDefault(field))
                ELSE None

\* with_common_extensions called on a builder with a to-device configuration
\* of the caller's: e2ee and account data are filled, to-device is kept,
\* receipt stays absent
C21_Witness ==
    /\ BundleCalled
    /\ called.op = "with_common_extensions"
    /\ ExtensionOf(called.self, "to_device") \in {Some(c) : c \in ToDeviceInputs}
    /\ ExtensionOf(called.self, "e2ee") = None
    /\ ExtensionOf(builder, "to_device") = ExtensionOf(called.self, "to_device")
    /\ ExtensionOf(builder, "e2ee") = Some(ToggleEnabled)
    /\ ExtensionOf(builder, "receipt") = None

\* the bundle `op` applied to a builder
Bundle(op, self) ==
    IF op = "with_common_extensions"
    THEN with_common_extensions(self)
    ELSE with_all_extensions(self)

\* bundle `op` after and before each individual setter, on builder `self`
SettersCommute(op, self) ==
    /\ \A c \in ToDeviceInputs :
          Bundle(op, with_to_device_extension(self, c)) =
              with_to_device_extension(Bundle(op, self), c)
    /\ \A c \in ToggleInputs :
          /\ Bundle(op, with_e2ee_extension(self, c)) =
                 with_e2ee_extension(Bundle(op, self), c)
          /\ Bundle(op, with_account_data_extension(self, c)) =
                 with_account_data_extension(Bundle(op, self), c)
          /\ Bundle(op, with_typing_extension(self, c)) =
                 with_typing_extension(Bundle(op, self), c)
          /\ Bundle(op, with_receipt_extension(self, c)) =
                 with_receipt_extension(Bundle(op, self), c)

\* bundle `op` after and before each individual unsetter, on builder `self`
UnsettersCommute(op, self) ==
    /\ Bundle(op, without_to_device_extension(self)) =
           without_to_device_extension(Bundle(op, self))
    /\ Bundle(op, without_e2ee_extension(self)) =
           without_e2ee_extension(Bundle(op, self))
    /\ Bundle(op, without_account_data_extension(self)) =
           without_account_data_extension(Bundle(op, self))
    /\ Bundle(op, without_typing_extension(self)) =
           without_typing_extension(Bundle(op, self))
    /\ Bundle(op, without_receipt_extension(self)) =
           without_receipt_extension(Bundle(op, self))

\* C22: the order of builder calls does not matter for the bundles: for every
\* individual setter or unsetter s (with_*_extension, without_*_extension)
\* and every bundle b (with_common_extensions, with_all_extensions), s then b
\* on a builder yields the same extension configuration as b then s.
C22_OrderIrrelevant ==
    pc = "builder" =>
        \A op \in {"with_common_extensions", "with_all_extensions"} :
            SettersCommute(op, builder) /\ UnsettersCommute(op, builder)

\* the extension an individual setter assigns
SetterField(op) ==
    CASE op = "with_to_device_extension" -> "to_device"
      [] op = "with_e2ee_extension" -> "e2ee"
      [] op = "with_account_data_extension" -> "account_data"
      [] op = "with_typing_extension" -> "typing"
      [] op = "with_receipt_extension" -> "receipt"

\* the configurations a caller passes to an individual setter
SetterInputs(op) == IF op = "with_to_device_extension" THEN ToDeviceInputs ELSE ToggleInputs

\* the last call on the builder chain was an individual setter
SetterCalled ==
    /\ pc = "builder"
    /\ called.op \in {"with_to_device_extension", "with_e2ee_extension",
                      "with_account_data_extension", "with_typing_extension",
                      "with_receipt_extension"}

\* C23 as stated: an individual setter (with_e2ee_extension,
\* with_to_device_extension, with_account_data_extension,
\* with_typing_extension, with_receipt_extension) called on a builder where
\* its extension is configured leaves that configuration unchanged.
C23_SettersKeep ==
    (SetterCalled /\ IsSome(ExtensionOf(called.self, SetterField(called.op)))) =>
        ExtensionOf(builder, SetterField(called.op)) =
            ExtensionOf(called.self, SetterField(called.op))

\* C23: an individual setter replaces the configuration of its extension by
\* the one passed, whether or not the extension was configured, and leaves
\* the other four extensions unchanged.
C23_SettersReplace ==
    SetterCalled =>
        \A field \in ExtensionFields :
            IF field = SetterField(called.op)
            THEN ExtensionOf(builder, field) \in {Some(c) : c \in SetterInputs(called.op)}
            ELSE ExtensionOf(builder, field) = ExtensionOf(called.self, field)

\* with_to_device_extension called after a bundle: the bundle's to-device
\* configuration is replaced, its e2ee configuration is kept
C23_Witness ==
    /\ SetterCalled
    /\ called.op = "with_to_device_extension"
    /\ ExtensionOf(called.self, "to_device") = Some(ToDeviceEnabled)
    /\ ExtensionOf(builder, "to_device") # Some(ToDeviceEnabled)
    /\ ExtensionOf(builder, "e2ee") = Some(ToggleEnabled)

-----------------------------------------------------------------------------
(* Store: the order of restore_session                                      *)

\* the last Store call to complete is a restore_session that installed the
\* session
RestoreInstalled ==
    /\ ret.op = "restore_session"
    /\ ret.outcome = "Ok"

\* every room info the call loaded has a Room in its partition, of the
\* persisted type where the backend still holds the info
Materialized(h) ==
    /\ \A id \in h.confirmed :
          /\ id \in DOMAIN rooms
          /\ id \in DOMAIN backend.room_infos =>
                 rooms[id].room_type = backend.room_infos[id]
    /\ \A id \in h.stripped :
          /\ id \in DOMAIN stripped_rooms
          /\ id \in DOMAIN backend.stripped_room_infos =>
                 stripped_rooms[id].room_type = backend.stripped_room_infos[id]

-----------------------------------------------------------------------------
(* build(): the reads of one run                                            *)

\* the keys a run with a storage key reads when no read fails: the views'
\* keys in ascending order of the view names, then the session-level key
ExpectedReads ==
    IF Warm
    THEN LET order == BTreeIter(DOMAIN ConfiguredViews)
         IN  [i \in 1..Len(order) |-> ViewKey(TheKey, order[i])] \o <<SessionKey(TheKey)>>
    ELSE <<>>

IsPrefix(p, q) ==
    /\ Len(p) <= Len(q)
    /\ \A i \in 1..Len(p) : p[i] = q[i]

\* the reads made so far are the first of the expected reads, each key once
ReadsInOrder ==
    /\ pc = "builder" => reads = <<>>
    /\ pc # "builder" => IsPrefix(reads, ExpectedReads)
    /\ \A i, j \in 1..Len(reads) : i # j => reads[i] # reads[j]
    /\ (Assembled /\ Warm) => reads = ExpectedReads
    /\ Aborted => (reads # <<>> /\ IsSome(error))

\* a step reads at most one key; a run that has ended with an error reads
\* nothing more, and a read made while the run goes on is its last if the
\* run ends with it
ReadsStopAtError ==
    /\ Len(reads') <= Len(reads) + 1
    /\ Aborted => reads' = reads
    /\ (~Aborted /\ Aborted') => (Len(reads') = Len(reads) + 1 /\ IsSome(error'))

\* C25: within one run of build() the store reads are sequential and never
\* retried: the views' keys are read one after another, the session-level
\* key only after every view read has succeeded, each key at most once, and
\* the first read to return a backend error ends the run with that error, no
\* further read being made.
C25_SequentialReads == [][ReadsInOrder' /\ ReadsStopAtError]_vars

\* the read of the second view failed in the backend: two keys were read,
\* the session-level key was not
C25_Witness ==
    /\ Aborted
    /\ error = Some("BackendFailure")
    /\ Len(reads) = 2
    /\ Len(ExpectedReads) = 3

-----------------------------------------------------------------------------
(* Store: get_or_create_room / get_or_create_stripped_room called by        *)
(* several tasks at once                                                    *)

\* the partition a call with `room_type` works on
Partition(room_type) == IF room_type = "Invited" THEN "stripped" ELSE "confirmed"

SameKey(t, u) ==
    /\ tasks[t].room_id = tasks[u].room_id
    /\ Partition(tasks[t].room_type) = Partition(tasks[u].room_type)

InFlight(t) == tasks[t].pc \in {"session", "entry"}
Returned(t) == tasks[t].pc = "done"

\* a Store on which restore_session(sess) has returned Ok(())
InitTasks ==
    \E b \in {b \in Backends : /\ DOMAIN b.room_infos \subseteq {"X"}
                               /\ DOMAIN b.stripped_room_infos \subseteq {"X"}},
       sess \in Sessions :
        LET confirmed == get_room_infos(b)
            stripped == get_stripped_room_infos(b)
            n == Cardinality(DOMAIN confirmed)
        IN  /\ backend = b
            /\ session = Some(sess)
            /\ sync_token = get_sync_token(b)
            /\ rooms = RestoreInto(EmptyMap, confirmed, sess.user_id, 0)
            /\ stripped_rooms = RestoreInto(EmptyMap, stripped, sess.user_id, n)
            /\ next_inst = n + Cardinality(DOMAIN stripped)
            /\ rs_pc = "idle"
            /\ rs_session = None
            /\ rs_hist = NoRestore
            /\ ret = [Call("restore_session", "", "", "Ok", <<>>)
                        EXCEPT !.prior = Some(NoRestore)]
            /\ goc_watch = None
            /\ goc_ret = None
            /\ goc_clean = FALSE
            /\ tasks = [t \in Tasks |-> NoTask]
            /\ ChangesIdle
            /\ builder = BuilderDefault
            /\ calls = 0
            /\ add_log = <<>>
            /\ called = NoBuilderCall
            /\ kv = [k \in Keys |-> None]
            /\ pc = "builder"
            /\ storage_key = None
            /\ views = EmptyMap
            /\ extensions = None
            /\ delta_token_inner = None
            /\ rooms_found = EmptyMap
            /\ iter = <<>>
            /\ reads = <<>>
            /\ sliding_sync = None
            /\ error = None

\* a task calls get_or_create_room(room_id, room_type) or
\* get_or_create_stripped_room(room_id); the future stops at
\* `self.session.read().await`
TaskCall == \E t \in Tasks, room_id \in RoomIds, room_type \in RoomTypes,
               op \in {"get_or_create_room", "get_or_create_stripped_room"} :
    /\ tasks[t].pc = "idle"
    /\ op = "get_or_create_stripped_room" => room_type = "Invited"
    /\ tasks' = [tasks EXCEPT ![t] = [NoTask EXCEPT !.pc = "session", !.op = op,
                                                    !.room_id = room_id,
                                                    !.room_type = room_type]]
    /\ UNCHANGED <<bootVars, storeVars, changesVars>>

\* the task is given the read guard of `session`; `expect` panics on None.
\* No restore_session holds the write guard: it holds it only within its
\* last step.
TaskGuard == \E t \in Tasks :
    /\ tasks[t].pc = "session"
    /\ tasks' = [tasks EXCEPT ![t].pc = IF IsNone(session) THEN "panicked" ELSE "entry",
                              ![t].raced = \E u \in Tasks \ {t} :
                                               InFlight(u) /\ SameKey(t, u)]
    /\ UNCHANGED <<bootVars, storeVars, changesVars>>

\* entry(room_id).or_insert_with(..).clone() under the guard: the DashMap
\* holds the shard's write lock from entry() until the Room is cloned
TaskEntry == \E t \in Tasks :
    LET id == tasks[t].room_id
        r == IF tasks[t].op = "get_or_create_room"
             THEN get_or_create_room(session, rooms, stripped_rooms, next_inst,
                                     id, tasks[t].room_type)
             ELSE LET s == get_or_create_stripped_room(session, stripped_rooms,
                                                       next_inst, id)
                  IN  [outcome |-> s.outcome, value |-> s.value, rooms |-> rooms,
                       stripped_rooms |-> s.stripped_rooms, n |-> s.n]
    IN  /\ tasks[t].pc = "entry"
        /\ rooms' = r.rooms
        /\ stripped_rooms' = r.stripped_rooms
        /\ next_inst' = r.n
        /\ ret' = [Call(tasks[t].op, id, tasks[t].room_type, r.outcome, r.value)
                     EXCEPT !.touched = r.rooms # rooms
                                          \/ r.stripped_rooms # stripped_rooms]
        /\ tasks' = [tasks EXCEPT ![t].pc = "done", ![t].value = r.value,
                                  ![t].created = r.n # next_inst]
        /\ UNCHANGED <<backend, session, sync_token, restoreVars, gocVars>>
        /\ UNCHANGED <<bootVars, changesVars>>

NextTasks ==
    \/ TaskCall
    \/ TaskGuard
    \/ TaskEntry

SpecTasks == InitTasks /\ [][NextTasks]_vars

\* the calls that have returned for the id and partition of task t
ReturnedFor(t) == {u \in Tasks : Returned(u) /\ SameKey(t, u)}

\* the Store held a Room for the key of task t before any task called
Preloaded(t) ==
    IF Partition(tasks[t].room_type) = "stripped"
    THEN tasks[t].room_id \in DOMAIN backend.stripped_room_infos
    ELSE tasks[t].room_id \in DOMAIN backend.room_infos

\* C26: with a session installed, however the get_or_create_room /
\* get_or_create_stripped_room calls of several tasks for one room id and
\* partition interleave, one Room object is constructed for that key (none
\* if the cache already held one) and every call returns that same object.
C26_OneInstancePerKey ==
    \A t \in Tasks : Returned(t) =>
        /\ IsSome(tasks[t].value)
        /\ \A u \in ReturnedFor(t) : tasks[u].value = tasks[t].value
        /\ Cardinality({u \in ReturnedFor(t) : tasks[u].created})
               = IF Preloaded(t) THEN 0 ELSE 1
        /\ tasks[t].value =
               IF Partition(tasks[t].room_type) = "stripped"
               THEN get_stripped_room(stripped_rooms, tasks[t].room_id)
               ELSE Some(rooms[tasks[t].room_id])

\* two calls for one key that was not cached, each made while the other was
\* in flight, have both returned
C26_Witness ==
    \E t, u \in Tasks :
        /\ t # u
        /\ Returned(t) /\ Returned(u)
        /\ SameKey(t, u)
        /\ tasks[t].raced /\ tasks[u].raced
        /\ ~Preloaded(t)
        /\ tasks[t].created
        /\ tasks[u].value = tasks[t].value

-----------------------------------------------------------------------------
(* build(): what the run does to the extension configuration               *)

\* two to-device configurations that differ at most in `since`
SameButSince(a, b) ==
    \/ IsNone(a) /\ IsNone(b)
    \/ /\ IsSome(a) /\ IsSome(b)
       /\ Unwrap(a).enabled = Unwrap(b).enabled
       /\ Unwrap(a).limit = Unwrap(b).limit

\* C27: a run of build() does not make a configuration of the extensions out
\* of none: when the builder chain configured no extensions, the assembled
\* session has none either, whatever the session snapshot holds; and in a
\* configuration the builder chain did make, the run changes nothing but the
\* `since` of the to-device extension.
C27_OnlySinceChanges ==
    Assembled =>
        /\ IsNone(ConfiguredExtensions) => IsNone(Session.extensions)
        /\ IsSome(ConfiguredExtensions) =>
              /\ IsSome(Session.extensions)
              /\ \A f \in ExtensionFields \ {"to_device"} :
                     Unwrap(Session.extensions)[f] = Unwrap(ConfiguredExtensions)[f]
              /\ SameButSince(Unwrap(Session.extensions).to_device,
                              Unwrap(ConfiguredExtensions).to_device)

-----------------------------------------------------------------------------
(* Store: get_or_create_room and the Room already cached                    *)

\* this step is a get_or_create_room call that returned
GetOrCreateRoomReturns ==
    /\ ret' # ret
    /\ ret'.op = "get_or_create_room"
    /\ ret'.outcome = "Ok"

\* C28: get_or_create_room neither replaces a cached Room nor gives it
\* another type: called with Joined or Left for an id the confirmed
\* partition holds, it returns the Room held there, with the type that
\* Room has, and leaves both partitions as they are; called with Invited it
\* leaves the confirmed partition as it is and returns the Room of the
\* stripped partition.
C28_NeverReplaces ==
    [][GetOrCreateRoomReturns =>
          LET id == ret'.room_id
          IN  /\ (ret'.room_type \in {"Joined", "Left"} /\ id \in DOMAIN rooms) =>
                    /\ ret'.value = Some(rooms[id])
                    /\ rooms' = rooms
                    /\ stripped_rooms' = stripped_rooms
              /\ ret'.room_type = "Invited" =>
                    /\ rooms' = rooms
                    /\ id \in DOMAIN stripped_rooms'
                    /\ ret'.value = Some(stripped_rooms'[id])
                    /\ Unwrap(ret'.value).room_type = "Invited"
                    /\ id \in DOMAIN stripped_rooms => stripped_rooms' = stripped_rooms
              /\ \A other \in DOMAIN rooms \ {id} :
                     other \in DOMAIN rooms' /\ rooms'[other] = rooms[other]]_vars

\* get_or_create_room("X", Left) has returned the Joined Room the confirmed
\* partition holds for X
C28_Witness ==
    /\ ret.op = "get_or_create_room"
    /\ ret.outcome = "Ok"
    /\ ret.room_id = "X"
    /\ ret.room_type = "Left"
    /\ ~ret.touched
    /\ "X" \in DOMAIN rooms
    /\ ret.value = Some(rooms["X"])
    /\ rooms["X"].room_type = "Joined"

====
